---- MODULE Spec2Model ----
(***************************************************************************)
(* A model of MCP_Bridge_Tool (agentflow/tools/mcp_bridge/tool.py): one    *)
(* bridge object used by one caller at a time.  The transports (the mcp    *)
(* stdio client, httpx) are the environment: each connect attempt, tool    *)
(* call and client release has a duration and an outcome chosen            *)
(* nondeterministically.  Time is counted in whole seconds since the       *)
(* start of the running execute call; the bridge's own computation takes   *)
(* no time, only awaits do.  SpecConstruct covers the constructor alone,    *)
(* from the environment it reads; SpecLife the constructor followed by the *)
(* use of the bridge; SpecTwo adds a second caller that uses the same      *)
(* bridge object from another thread.                                      *)
(***************************************************************************)
EXTENDS Integers, Sequences, FiniteSets, TLC

\* ---------------------------------------------------------------- bounds
MaxTimeout == 3
MaxAttempts == 2
MaxDur == 5

\* ------------------------------------------------------ program constants
BackoffSeconds == 1

\* Optional[...] values: None is the empty tuple, a present value v is <<v>>.
None == <<>>
Some(v) == <<v>>

EmptyDict == "{}"
MessageHi == "{'message': 'hi'}"

ToolNames == {"echo", "add", "nope"}
ArgumentInputs == {None, Some(EmptyDict), Some(MessageHi)}
TimeoutInputs == {None} \cup {Some(t) : t \in -1..MaxTimeout}
Durations == 0..MaxDur

\* What a server may answer to the tool-list request of a connect.
Listings == {<<>>, <<"echo">>, <<"echo", "add">>}
\* Text of the first content block of a tool-call response.
Texts == {"Echo: hi"}
\* str(e) of an exception raised by the transport.
ErrTexts == {"connection reset"}
IndexErrorText == "list index out of range"
RunningLoopText == "asyncio.run() cannot be called from a running event loop"

server_command == "echo-server"
server_url == "http://localhost:8000"

VARIABLES
    \* configuration (tool.py 131-136)
    server_type, timeout, reconnect_attempts,
    \* connection state (tool.py 139-142)
    session, http_client, available_tools, connection_healthy,
    \* the running execute call: position, locals, clock
    pc, arguments, exec_timeout, attempts_made, elapsed, pending,
    \* what the caller and the transport observed
    last, call, sentLog, respLog, cut, connLog, prevExecError, closeLog,
    \* the environment the constructor read and how construction ended
    env, constructed,
    \* what the last get_available_tools / get_server_info call returned
    listed, info,
    \* a second caller using the same bridge object from another thread
    other

vars == <<server_type, timeout, reconnect_attempts,
          session, http_client, available_tools, connection_healthy,
          pc, arguments, exec_timeout, attempts_made, elapsed, pending,
          last, call, sentLog, respLog, cut, connLog, prevExecError, closeLog,
          env, constructed, listed, info, other>>

\* Observations of the running call: what was sent to the transport, what it
\* answered, and the awaited operation the deadline cut short.
\* connLog: what the connect attempts of the running call did, the tool list
\* the last successful one fetched and whether one replaced an open handle.
wire == <<sentLog, respLog, cut, connLog>>
config == <<server_type, timeout, reconnect_attempts>>
conn == <<session, http_client, available_tools, connection_healthy>>
\* Fixed once the bridge is built and used by one caller.
setup == <<env, constructed, other>>
queries == <<listed, info>>

NoPending == [op |-> "none", dur |-> 0]
NoCall == [tool_name |-> "echo", argIn |-> None, timeoutIn |-> None,
           healthBefore |-> FALSE, afterExecError |-> FALSE,
           loopRunning |-> FALSE, afterClose |-> FALSE]
\* The second caller while it is not inside execute.
NoOther == [pc |-> "idle", tool_name |-> "echo", attempts_made |-> 0]
NoConnLog == [fetched |-> None, replacedOpen |-> FALSE]
NoResult == [none |-> TRUE]
\* An exception that leaves execute instead of a returned dictionary.
Raised(exc) == [exception |-> exc]

\* ------------------------------------------------------------ pure helpers
Range(s) == {s[i] : i \in 1..Len(s)}

\* Python truthiness of an Optional[int]: None and 0 are falsy.
Truthy(opt) == opt # None /\ opt[1] # 0

\* tool.py 338-339
NormalizeArguments_Identity(args) == args
NormalizeArguments(args) == IF args = None THEN Some(EmptyDict) ELSE args

\* tool.py 342: exec_timeout = timeout or self.timeout
ExecTimeout(tmo) == IF Truthy(tmo) THEN tmo[1] ELSE timeout

\* tool.py 439-455, read with the given health flag and catalog
ServerInfo_FromCallStart(healthy, tools) ==
    [type |-> server_type,
     connected |-> call.healthBefore,
     available_tools_count |-> Len(tools),
     config |-> [command |-> IF server_type = "stdio" THEN Some(server_command) ELSE None,
                 url |-> IF server_type = "http" THEN Some(server_url) ELSE None,
                 timeout |-> timeout]]
ServerInfo(healthy, tools) ==
    [type |-> server_type,
     connected |-> healthy,
     available_tools_count |-> Len(tools),
     config |-> [command |-> IF server_type = "stdio" THEN Some(server_command) ELSE None,
                 url |-> IF server_type = "http" THEN Some(server_url) ELSE None,
                 timeout |-> timeout]]

\* The two shapes of the dictionary execute returns.
Success(name, value, healthy, tools) ==
    [success |-> TRUE, result |-> value, tool_name |-> name,
     server_info |-> ServerInfo(healthy, tools)]
Failure(name, err, healthy, tools) ==
    [success |-> FALSE, error |-> err, tool_name |-> name,
     server_info |-> ServerInfo(healthy, tools)]

\* The error strings, as sequences of their pieces.
TimeoutMsg(t) == <<"Tool execution timed out after ", ToString(t), " seconds">>
ExecutionFailedMsg(text) == <<"Execution failed: ", text>>
ConnectFailedMsg_UnknownTool ==
    <<"Tool '", call.tool_name, "' not found on server. Available: ">>
ConnectFailedMsg == <<"Failed to connect to MCP server after multiple attempts">>
UnknownToolMsg_NoList(name, tools) ==
    <<"Tool '", name, "' not found on server. Available: ">>
UnknownToolMsg(name, tools) ==
    <<"Tool '", name, "' not found on server. Available: ">> \o tools
ToolErrorMsg_AsExecutionFailed(text) == <<"Execution failed: ", text>>
ToolErrorMsg(text) == <<"Tool execution error: ", text>>

\* The failure kind a caller reads off a returned dictionary.
Kind(r) ==
    IF "success" \notin DOMAIN r THEN "Raised"
    ELSE IF r.success THEN "Success"
    ELSE IF r.error[1] = "Tool execution timed out after " THEN "Timeout"
    ELSE IF r.error[1] = "Failed to connect to MCP server after multiple attempts"
         THEN "ConnectionFailed"
    ELSE IF r.error[1] = "Tool '" THEN "UnknownTool"
    ELSE IF r.error[1] = "Tool execution error: " THEN "ExecutionError"
    ELSE "ExecutionFailed"

\* ----------------------------------------------------------- construction
\* str.lower() on the values MCP_SERVER_TYPE takes here (tool.py 131).
Lower(s) == IF s = "STDIO" THEN "stdio" ELSE IF s = "HTTP" THEN "http" ELSE s

\* What __init__ reads: the environment variables (an unset variable is None)
\* and whether the imports at the top of the module succeeded.
ServerTypeInputs == {"stdio", "STDIO", "http", "grpc"}
CommandInputs == {None, Some(""), Some(server_command)}
UrlInputs == {None, Some(""), Some(server_url)}
Envs ==
    [server_type : ServerTypeInputs,
     server_command : CommandInputs,
     server_url : UrlInputs,
     timeout : 0..MaxTimeout,
     reconnect_attempts : 0..MaxAttempts,
     stdio_available : BOOLEAN,
     http_available : BOOLEAN]

\* Python truthiness of an Optional[str]: None and "" are falsy.
TruthyStr_NotNone(opt) == opt # None
TruthyStr(opt) == opt # None /\ opt[1] # ""

\* tool.py 147-170: "ok" when _validate_config returns, otherwise the class of
\* the exception it raises.
ValidateConfig_ParameterFirst(type, command, url, stdioAvailable, httpAvailable) ==
    IF type = "stdio"
      THEN IF ~TruthyStr(command) THEN "ValueError"
           ELSE IF ~stdioAvailable THEN "ImportError"
           ELSE "ok"
    ELSE IF type = "http"
      THEN IF ~TruthyStr(url) THEN "ValueError"
           ELSE IF ~httpAvailable THEN "ImportError"
           ELSE "ok"
    ELSE "ValueError"
ValidateConfig(type, command, url, stdioAvailable, httpAvailable) ==
    IF type = "stdio"
      THEN IF ~stdioAvailable THEN "ImportError"
           ELSE IF ~TruthyStr(command) THEN "ValueError"
           ELSE "ok"
    ELSE IF type = "http"
      THEN IF ~httpAvailable THEN "ImportError"
           ELSE IF ~TruthyStr(url) THEN "ValueError"
           ELSE "ok"
    ELSE "ValueError"

\* The environment of a bridge built with the given configuration.
EnvOf(type, tmo, attempts) ==
    [server_type |-> type,
     server_command |-> IF type = "stdio" THEN Some(server_command) ELSE None,
     server_url |-> IF type = "http" THEN Some(server_url) ELSE None,
     timeout |-> tmo,
     reconnect_attempts |-> attempts,
     stdio_available |-> TRUE,
     http_available |-> TRUE]

\* ------------------------------------------------------------------- Init
Init ==
    /\ server_type \in {"stdio", "http"}
    /\ timeout \in 1..MaxTimeout
    /\ reconnect_attempts \in 0..MaxAttempts
    /\ session = "None"
    /\ http_client = "None"
    /\ available_tools = <<>>
    /\ connection_healthy = FALSE
    /\ pc = "idle"
    /\ arguments = Some(EmptyDict)
    /\ exec_timeout = timeout
    /\ attempts_made = 0
    /\ elapsed = 0
    /\ pending = NoPending
    /\ last = NoResult
    /\ call = NoCall
    /\ sentLog = <<>>
    /\ respLog = <<>>
    /\ cut = NoPending
    /\ connLog = NoConnLog
    /\ prevExecError = FALSE
    /\ closeLog = <<>>
    /\ env = EnvOf(server_type, timeout, reconnect_attempts)
    /\ constructed = "ok"
    /\ listed = None
    /\ info = None
    /\ other = NoOther

\* The state before MCP_Bridge_Tool() is called: only the environment exists.
InitConstruct ==
    /\ env \in Envs
    /\ constructed = "pending"
    /\ server_type = ""
    /\ timeout = 0
    /\ reconnect_attempts = 0
    /\ session = "None"
    /\ http_client = "None"
    /\ available_tools = <<>>
    /\ connection_healthy = FALSE
    /\ pc = "new"
    /\ arguments = Some(EmptyDict)
    /\ exec_timeout = 0
    /\ attempts_made = 0
    /\ elapsed = 0
    /\ pending = NoPending
    /\ last = NoResult
    /\ call = NoCall
    /\ sentLog = <<>>
    /\ respLog = <<>>
    /\ cut = NoPending
    /\ connLog = NoConnLog
    /\ prevExecError = FALSE
    /\ closeLog = <<>>
    /\ listed = None
    /\ info = None
    /\ other = NoOther

\* tool.py 66-145: __init__ reads the configuration (131-136), sets the
\* connection state (139-142) and validates (145).  When validation raises no
\* bridge object is handed to the caller.
\* tool.py 139-140: _session and _http_client as __init__ leaves them.
HandleAtConstruction_Eager == "open"
HandleAtConstruction == "None"

Construct ==
    /\ constructed = "pending"
    /\ LET type == Lower(env.server_type)
           v == ValidateConfig(type, env.server_command, env.server_url,
                               env.stdio_available, env.http_available)
       IN  /\ constructed' = v
           /\ IF v = "ok"
                THEN /\ server_type' = type
                     /\ timeout' = env.timeout
                     /\ reconnect_attempts' = env.reconnect_attempts
                     /\ exec_timeout' = env.timeout
                     /\ pc' = "idle"
                ELSE UNCHANGED <<config, exec_timeout, pc>>
    /\ session' = HandleAtConstruction
    /\ http_client' = HandleAtConstruction
    /\ available_tools' = <<>>
    /\ connection_healthy' = FALSE
    /\ UNCHANGED <<env, other, queries, arguments, attempts_made, elapsed, pending,
                   last, call, wire, prevExecError, closeLog>>

NextConstruct == Construct

SpecConstruct == InitConstruct /\ [][NextConstruct]_vars

\* ---------------------------------------------------------------- execute
\* tool.py 354-367: the except clauses of execute, for an exception of class
\* exc with text str(e) raised by asyncio.run(asyncio.wait_for(...)) under the
\* timeout t.
ExecuteHandler_Propagates(exc, text, name, t, healthy, tools) == Raised(exc)
ExecuteHandler(exc, text, name, t, healthy, tools) ==
    IF exc = "TimeoutError"
      THEN Failure(name, TimeoutMsg(t), healthy, tools)
      ELSE Failure(name, ExecutionFailedMsg(text), healthy, tools)

\* tool.py 338-367 up to the first step of _execute_async: the values execute
\* computes from its inputs, and what it returns when asyncio.run or wait_for
\* raises before the coroutine runs.
ExecuteEffect(name, args, tmo, loopRunning) ==
    LET a == NormalizeArguments(args)
        t == ExecTimeout(tmo)
    IN  [arguments |-> a,
         exec_timeout |-> t,
         pc |-> IF loopRunning \/ t <= 0 THEN "done" ELSE "ensure",
         last |-> IF loopRunning
                    THEN ExecuteHandler("RuntimeError", RunningLoopText, name, t,
                                        connection_healthy, available_tools)
                  ELSE IF t <= 0
                    THEN ExecuteHandler("TimeoutError", "", name, t,
                                        connection_healthy, available_tools)
                  ELSE last]

\* tool.py 342: the effective timeout t is a local of execute; self.timeout
\* is not assigned.
TimeoutAfterExecute_Stored(t) == t
TimeoutAfterExecute(t) == timeout

Execute(name, args, tmo, loopRunning) ==
    /\ pc = "idle"
    /\ LET e == ExecuteEffect(name, args, tmo, loopRunning)
       IN  /\ arguments' = e.arguments
           /\ exec_timeout' = e.exec_timeout
           /\ pc' = e.pc
           /\ last' = e.last
    /\ call' = [tool_name |-> name, argIn |-> args, timeoutIn |-> tmo,
                healthBefore |-> connection_healthy,
                afterExecError |-> prevExecError,
                loopRunning |-> loopRunning,
                afterClose |-> (closeLog # <<>> /\ closeLog[Len(closeLog)] = "ok")]
    /\ attempts_made' = 0
    /\ elapsed' = 0
    /\ pending' = NoPending
    /\ sentLog' = <<>>
    /\ respLog' = <<>>
    /\ cut' = NoPending
    /\ connLog' = NoConnLog
    /\ prevExecError' = FALSE
    /\ closeLog' = <<>>
    /\ listed' = None
    /\ info' = None
    /\ timeout' = TimeoutAfterExecute(ExecTimeout(tmo))
    /\ UNCHANGED <<server_type, reconnect_attempts, setup, conn>>

\* Leaving execute with the dictionary r (tool.py 352, 355, 362).
Return_KeepsPending(r) ==
    /\ pc' = "done"
    /\ last' = r
    /\ UNCHANGED pending
Return(r) ==
    /\ pc' = "done"
    /\ last' = r
    /\ pending' = NoPending

\* tool.py 260-261: the entry check of _ensure_connection.
EnsureTarget_AlwaysReconnects == "loop"
EnsureTarget == IF connection_healthy THEN "lookup" ELSE "loop"

\* tool.py 264: for attempt in range(self.reconnect_attempts)
MoreAttempts_OneMore == attempts_made <= reconnect_attempts
MoreAttempts == attempts_made < reconnect_attempts

EnsureConnection ==
    /\ pc = "ensure"
    /\ pc' = EnsureTarget
    /\ UNCHANGED <<config, setup, queries, conn, arguments, exec_timeout, attempts_made, elapsed,
                   pending, last, call, wire, prevExecError, closeLog>>

\* The handles after _connect_stdio (tool.py 191) or _connect_http
\* (tool.py 223-227) has built its new transport object.
SessionAfterCtor == IF server_type = "stdio" THEN "open" ELSE session
HttpClientAfterCtor_NotStored == http_client
HttpClientAfterCtor == IF server_type = "http" THEN "open" ELSE http_client

\* The handle of the configured transport.
HandleInUse == IF server_type = "stdio" THEN session ELSE http_client

\* tool.py 209-212 / 248-251: what the except clause of a connect does with the
\* exception, return False or let it out.
ConnectHandler_Reraises == "raise"
ConnectHandler == "False"

\* str(e) of the exception a failed connect caught.
ConnectErrText == CHOOSE t \in ErrTexts : TRUE

\* tool.py 209-212 / 248-251, then 272-275: the connect failed; the loop goes
\* to sleep.  An exception let out of the connect would leave
\* _ensure_connection and _execute_async (381 is outside the try of 399) and
\* reach the except clause of execute (361-367).
ConnectFails ==
    /\ connection_healthy' = FALSE
    /\ IF ConnectHandler = "False"
         THEN /\ pc' = "sleeping"
              /\ pending' = [op |-> "sleep", dur |-> BackoffSeconds]
              /\ UNCHANGED last
         ELSE Return(ExecuteHandler("Exception", ConnectErrText, call.tool_name,
                                    exec_timeout, FALSE, available_tools))

\* tool.py 198-204 / 237-243: the catalog after a connect listed the tools.
CatalogAfterConnect_Merged(listing) ==
    listing \o SelectSeq(available_tools, LAMBDA n : n \notin Range(listing))
CatalogAfterConnect(listing) == listing

\* tool.py 264-270 with the synchronous head of the connect (179-191 or
\* 221-227), or 277 and 381-387 when the attempts are used up.  ctor = "raise":
\* building the transport object raised, which the connect's handler turns into
\* an unhealthy flag and False (209-212, 248-251), and the loop goes to sleep.
ReconnectLoop(ctor, d) ==
    /\ pc = "loop"
    /\ IF MoreAttempts
         THEN /\ attempts_made' = attempts_made + 1
              /\ IF ctor = "raise"
                   THEN /\ ConnectFails
                        /\ UNCHANGED <<session, http_client, connLog>>
                   ELSE /\ session' = SessionAfterCtor
                        /\ http_client' = HttpClientAfterCtor
                        /\ connLog' = [connLog EXCEPT
                                         !.replacedOpen = @ \/ HandleInUse = "open"]
                        /\ pc' = "connecting"
                        /\ pending' = [op |-> "connect", dur |-> d]
                        /\ UNCHANGED <<connection_healthy, last>>
         ELSE /\ Return(Failure(call.tool_name, ConnectFailedMsg,
                                connection_healthy, available_tools))
              /\ UNCHANGED <<attempts_made, session, http_client, connection_healthy,
                             connLog>>
    /\ UNCHANGED <<config, setup, queries, available_tools, arguments, exec_timeout, elapsed,
                   call, sentLog, respLog, cut, prevExecError, closeLog>>

\* An awaited operation that ends before the deadline of wait_for resumes the
\* coroutine; one that ends exactly at the deadline may go either way.
Completes_Always == TRUE
Completes == elapsed + pending.dur <= exec_timeout
Expires == elapsed + pending.dur >= exec_timeout

\* tool.py 194-207 / 230-246 (the connect succeeded: listing is the server's
\* tool list) or 209-212 / 248-251 (it raised), then 272-275.
ConnectDone(ok, listing) ==
    /\ pc = "connecting"
    /\ Completes
    /\ elapsed' = elapsed + pending.dur
    /\ IF ok
         THEN /\ available_tools' = CatalogAfterConnect(listing)
              /\ connection_healthy' = TRUE
              /\ connLog' = [connLog EXCEPT !.fetched = Some(listing)]
              /\ pc' = "lookup"
              /\ pending' = NoPending
              /\ UNCHANGED last
         ELSE /\ ConnectFails
              /\ UNCHANGED <<available_tools, connLog>>
    /\ UNCHANGED <<config, setup, queries, session, http_client, arguments, exec_timeout,
                   attempts_made, call, sentLog, respLog, cut, prevExecError, closeLog>>

\* tool.py 275: the sleep ended, back to the head of the loop.
SleepDone ==
    /\ pc = "sleeping"
    /\ Completes
    /\ elapsed' = elapsed + pending.dur
    /\ pc' = "loop"
    /\ pending' = NoPending
    /\ UNCHANGED <<config, setup, queries, conn, arguments, exec_timeout, attempts_made,
                   last, call, wire, prevExecError, closeLog>>

\* tool.py 390-403: the catalog lookup, then the tool call is sent.
\* tool.py 390-396: the unknown-tool return does not touch the flag.
HealthAfterUnknownTool_Unhealthy == FALSE
HealthAfterUnknownTool == connection_healthy

Lookup(d) ==
    /\ pc = "lookup"
    /\ IF call.tool_name \notin Range(available_tools)
         THEN /\ connection_healthy' = HealthAfterUnknownTool
              /\ Return(Failure(call.tool_name,
                                UnknownToolMsg(call.tool_name, available_tools),
                                HealthAfterUnknownTool, available_tools))
              /\ UNCHANGED sentLog
         ELSE /\ pc' = "calling"
              /\ pending' = [op |-> "call", dur |-> d]
              /\ sentLog' = Append(sentLog, arguments)
              /\ UNCHANGED <<last, connection_healthy>>
    /\ UNCHANGED <<config, setup, queries, session, http_client, available_tools,
                   arguments, exec_timeout, attempts_made, elapsed,
                   call, respLog, cut, connLog, prevExecError, closeLog>>

\* What the server may do with a tool call: answer with a text block, answer
\* with no content block, or fail (transport error, non-2xx status).
Responses ==
    {[kind |-> "text", text |-> t] : t \in Texts}
    \cup {[kind |-> "empty", text |-> ""]}
    \cup {[kind |-> "error", text |-> t] : t \in ErrTexts}

\* tool.py 290-291 (_execute_stdio) and 304-314 (_execute_http): the value
\* returned, or the exception raised, for a response.
ExecuteTransport_NoText(resp) ==
    IF resp.kind = "error" THEN [raised |-> TRUE, value |-> resp.text]
    ELSE [raised |-> FALSE, value |-> EmptyDict]
ExecuteTransport(resp) ==
    IF resp.kind = "error" THEN [raised |-> TRUE, value |-> resp.text]
    ELSE IF resp.kind = "text" THEN [raised |-> FALSE, value |-> resp.text]
    ELSE IF server_type = "stdio" THEN [raised |-> FALSE, value |-> EmptyDict]
    ELSE [raised |-> TRUE, value |-> IndexErrorText]

\* tool.py 414: the flag after the call raised.
HealthAfterCallError_Unchanged == connection_healthy
HealthAfterCallError == FALSE

\* tool.py 405-410 (the call returned) or 412-421 (it raised).
CallDone(resp) ==
    /\ pc = "calling"
    /\ Completes
    /\ elapsed' = elapsed + pending.dur
    /\ respLog' = Append(respLog, resp)
    /\ LET out == ExecuteTransport(resp)
       IN  IF out.raised
             THEN /\ connection_healthy' = HealthAfterCallError
                  /\ Return(Failure(call.tool_name, ToolErrorMsg(out.value),
                                    HealthAfterCallError, available_tools))
             ELSE /\ Return(Success(call.tool_name, out.value,
                                    connection_healthy, available_tools))
                  /\ UNCHANGED connection_healthy
    /\ UNCHANGED <<config, setup, queries, session, http_client, available_tools, arguments,
                   exec_timeout, attempts_made, call, sentLog, cut, connLog,
                   prevExecError,
                   closeLog>>

\* tool.py 346-351: when wait_for stops waiting, in seconds since the call.
DeadlineElapsed_WaitsForOperation == elapsed + pending.dur
DeadlineElapsed == exec_timeout

\* tool.py 354-360: the flag after the deadline passed.
HealthAfterTimeout_Unhealthy == FALSE
HealthAfterTimeout == connection_healthy

\* tool.py 346-360: the deadline passes while the coroutine awaits; wait_for
\* cancels it and execute returns the timeout dictionary.
DeadlineExceeded ==
    /\ pc \in {"connecting", "sleeping", "calling"}
    /\ Expires
    /\ elapsed' = DeadlineElapsed
    /\ connection_healthy' = HealthAfterTimeout
    /\ cut' = pending
    /\ Return(ExecuteHandler("TimeoutError", "", call.tool_name, exec_timeout,
                             HealthAfterTimeout, available_tools))
    /\ UNCHANGED <<config, setup, queries, session, http_client, available_tools, arguments,
                   exec_timeout, attempts_made, call, sentLog, respLog, connLog,
                   prevExecError, closeLog>>

\* The caller has the returned dictionary; the locals of the call are gone.
CallerResumes ==
    /\ pc = "done"
    /\ pc' = "idle"
    /\ arguments' = Some(EmptyDict)
    /\ exec_timeout' = timeout
    /\ attempts_made' = 0
    /\ elapsed' = 0
    /\ last' = NoResult
    /\ call' = NoCall
    /\ sentLog' = <<>>
    /\ respLog' = <<>>
    /\ cut' = NoPending
    /\ connLog' = NoConnLog
    /\ prevExecError' = (Kind(last) = "ExecutionError")
    /\ UNCHANGED <<config, setup, queries, conn, pending, closeLog>>

\* ------------------------------------------------------------------ close
\* The last two outcomes of the close calls made since the last execute.
Logged(log, x) == IF Len(log) < 2 THEN Append(log, x) ELSE <<log[2], x>>

\* tool.py 457-465.  release = "raise": asyncio.run(self._http_client.aclose())
\* raised (the client's connections belong to a closed event loop, or close was
\* called inside a running loop); the exception leaves close before line 465.
\* tool.py 457-465: close does not touch _available_tools.
CatalogAfterClose_Cleared == <<>>
CatalogAfterClose == available_tools

Close(release) ==
    /\ pc = "idle"
    /\ IF http_client # "None" /\ release = "raise"
         THEN /\ closeLog' = Logged(closeLog, "raised")
              /\ UNCHANGED <<http_client, connection_healthy>>
         ELSE /\ http_client' = IF http_client # "None" THEN "closed" ELSE http_client
              /\ connection_healthy' = FALSE
              /\ closeLog' = Logged(closeLog, "ok")
    /\ available_tools' = CatalogAfterClose
    /\ listed' = None
    /\ info' = None
    /\ UNCHANGED <<config, setup, session, pc, arguments,
                   exec_timeout, attempts_made, elapsed, pending, last, call, wire,
                   prevExecError>>

\* ---------------------------------------------------------------- queries
\* tool.py 423-437: the catalog as it is cached, one entry per tool.
GetAvailableTools ==
    /\ pc = "idle"
    /\ listed' = Some(available_tools)
    /\ info' = None
    /\ UNCHANGED <<config, setup, conn, pc, arguments, exec_timeout, attempts_made,
                   elapsed, pending, last, call, wire, prevExecError, closeLog>>

\* tool.py 439-455
GetServerInfo ==
    /\ pc = "idle"
    /\ info' = Some(ServerInfo(connection_healthy, available_tools))
    /\ listed' = None
    /\ UNCHANGED <<config, setup, conn, pc, arguments, exec_timeout, attempts_made,
                   elapsed, pending, last, call, wire, prevExecError, closeLog>>

Next ==
    \/ \E name \in ToolNames, args \in ArgumentInputs, tmo \in TimeoutInputs,
          loopRunning \in BOOLEAN : Execute(name, args, tmo, loopRunning)
    \/ EnsureConnection
    \/ \E ctor \in {"ok", "raise"}, d \in Durations : ReconnectLoop(ctor, d)
    \/ \E ok \in BOOLEAN, listing \in Listings : ConnectDone(ok, listing)
    \/ SleepDone
    \/ \E d \in Durations : Lookup(d)
    \/ \E resp \in Responses : CallDone(resp)
    \/ DeadlineExceeded
    \/ CallerResumes
    \/ \E release \in {"ok", "raise"} : Close(release)
    \/ GetAvailableTools
    \/ GetServerInfo

Spec == Init /\ [][Next]_vars

\* ------------------------------------------------------------ two callers
\* A second thread calls execute on the same bridge object while the first
\* caller may be inside execute.  Each thread has its own event loop
\* (asyncio.run, tool.py 344) and its own locals; the attributes of the bridge
\* are shared and nothing in execute, _execute_async or _ensure_connection
\* takes a lock.  The second caller's clock is not modelled: any of its awaits
\* may end or may be cut short by its deadline.
callerA == <<pc, arguments, exec_timeout, attempts_made, elapsed, pending, last,
             call, wire, prevExecError, closeLog>>

\* The second caller leaves execute with a returned dictionary.
OtherReturns == other' = NoOther

\* tool.py 338-352: the second caller enters execute with a positive timeout.
OtherExecute(name) ==
    /\ other.pc = "idle"
    /\ other' = [pc |-> "ensure", tool_name |-> name, attempts_made |-> 0]
    /\ UNCHANGED <<config, env, constructed, queries, callerA, conn>>

\* tool.py 260-261
OtherEnsureConnection ==
    /\ other.pc = "ensure"
    /\ other' = [other EXCEPT !.pc = EnsureTarget]
    /\ UNCHANGED <<config, env, constructed, queries, callerA, conn>>

\* tool.py 264-270 with 179-191 / 221-227, or 277 and 381-387.
OtherReconnectLoop(ctor) ==
    /\ other.pc = "loop"
    /\ IF other.attempts_made < reconnect_attempts
         THEN IF ctor = "raise"
                THEN /\ connection_healthy' = FALSE
                     /\ other' = [other EXCEPT !.pc = "sleeping",
                                               !.attempts_made = @ + 1]
                     /\ UNCHANGED <<session, http_client>>
                ELSE /\ session' = SessionAfterCtor
                     /\ http_client' = HttpClientAfterCtor
                     /\ other' = [other EXCEPT !.pc = "connecting",
                                               !.attempts_made = @ + 1]
                     /\ UNCHANGED connection_healthy
         ELSE /\ OtherReturns
              /\ UNCHANGED <<session, http_client, connection_healthy>>
    /\ UNCHANGED <<config, env, constructed, queries, callerA, available_tools>>

\* tool.py 194-207 / 230-246 or 209-212 / 248-251, then 272-275.
OtherConnectDone(ok, listing) ==
    /\ other.pc = "connecting"
    /\ IF ok
         THEN /\ available_tools' = listing
              /\ connection_healthy' = TRUE
              /\ other' = [other EXCEPT !.pc = "lookup"]
         ELSE /\ connection_healthy' = FALSE
              /\ other' = [other EXCEPT !.pc = "sleeping"]
              /\ UNCHANGED available_tools
    /\ UNCHANGED <<config, env, constructed, queries, callerA, session, http_client>>

\* tool.py 275
OtherSleepDone ==
    /\ other.pc = "sleeping"
    /\ other' = [other EXCEPT !.pc = "loop"]
    /\ UNCHANGED <<config, env, constructed, queries, callerA, conn>>

\* tool.py 390-403
OtherLookup ==
    /\ other.pc = "lookup"
    /\ IF other.tool_name \notin Range(available_tools)
         THEN OtherReturns
         ELSE other' = [other EXCEPT !.pc = "calling"]
    /\ UNCHANGED <<config, env, constructed, queries, callerA, conn>>

\* tool.py 405-410 or 412-421
OtherCallDone(resp) ==
    /\ other.pc = "calling"
    /\ connection_healthy' = IF ExecuteTransport(resp).raised
                               THEN HealthAfterCallError
                               ELSE connection_healthy
    /\ OtherReturns
    /\ UNCHANGED <<config, env, constructed, queries, callerA, session, http_client,
                   available_tools>>

\* tool.py 346-360
OtherDeadlineExceeded ==
    /\ other.pc \in {"connecting", "sleeping", "calling"}
    /\ connection_healthy' = HealthAfterTimeout
    /\ OtherReturns
    /\ UNCHANGED <<config, env, constructed, queries, callerA, session, http_client,
                   available_tools>>

\* The tool names the two callers ask for: one the server may offer, one it
\* never offers.
TwoCallerNames == {"echo", "nope"}

\* Both callers use the configured default timeout, the longest one.
InitTwo == Init /\ timeout = MaxTimeout

NextTwo ==
    \/ \E name \in TwoCallerNames : Execute(name, Some(MessageHi), None, FALSE)
    \/ EnsureConnection
    \/ \E ctor \in {"ok", "raise"}, d \in Durations : ReconnectLoop(ctor, d)
    \/ \E ok \in BOOLEAN, listing \in Listings : ConnectDone(ok, listing)
    \/ SleepDone
    \/ \E d \in Durations : Lookup(d)
    \/ \E resp \in Responses : CallDone(resp)
    \/ DeadlineExceeded
    \/ CallerResumes
    \/ \E name \in TwoCallerNames : OtherExecute(name)
    \/ OtherEnsureConnection
    \/ \E ctor \in {"ok", "raise"} : OtherReconnectLoop(ctor)
    \/ \E ok \in BOOLEAN, listing \in Listings : OtherConnectDone(ok, listing)
    \/ OtherSleepDone
    \/ OtherLookup
    \/ \E resp \in Responses : OtherCallDone(resp)
    \/ OtherDeadlineExceeded

SpecTwo == InitTwo /\ [][NextTwo]_vars

\* ------------------------------------------------- construction, then use
\* A bridge is constructed from its environment and then used by one caller.
\* The configured timeout is the longest one and the execute inputs are fixed.
InitLife == InitConstruct /\ env.timeout = MaxTimeout

NextLife ==
    \/ Construct
    \/ \E name \in TwoCallerNames : Execute(name, Some(MessageHi), None, FALSE)
    \/ EnsureConnection
    \/ \E ctor \in {"ok", "raise"}, d \in Durations : ReconnectLoop(ctor, d)
    \/ \E ok \in BOOLEAN, listing \in Listings : ConnectDone(ok, listing)
    \/ SleepDone
    \/ \E d \in Durations : Lookup(d)
    \/ \E resp \in Responses : CallDone(resp)
    \/ DeadlineExceeded
    \/ CallerResumes
    \/ \E release \in {"ok", "raise"} : Close(release)
    \/ GetAvailableTools
    \/ GetServerInfo

SpecLife == InitLife /\ [][NextLife]_vars

\* ----------------------------------------------------------------- claims
Running == pc \in {"ensure", "loop", "connecting", "sleeping", "lookup", "calling"}

\* A step of the running call.
CallStep ==
    \/ EnsureConnection
    \/ \E ctor \in {"ok", "raise"}, d \in Durations : ReconnectLoop(ctor, d)
    \/ \E ok \in BOOLEAN, listing \in Listings : ConnectDone(ok, listing)
    \/ SleepDone
    \/ \E d \in Durations : Lookup(d)
    \/ \E resp \in Responses : CallDone(resp)
    \/ DeadlineExceeded

\* The effective timeout as the specification words it: the override when it
\* is given and positive, the configured default otherwise.
EffectiveTimeoutAsSpecified(tmo) ==
    IF tmo # None /\ tmo[1] > 0 THEN tmo[1] ELSE timeout

\* A call made outside a running event loop with a positive timeout: the
\* coroutine of execute actually ran.
CoroutineRan == pc = "done" /\ exec_timeout > 0 /\ Kind(last) # "ExecutionFailed"

\* C1 as stated: an execute call that starts unhealthy either succeeds after at
\* most reconnect_attempts connect attempts or returns the connection failure
\* after exactly reconnect_attempts attempts.
C1_AsStated ==
    (CoroutineRan /\ ~call.healthBefore) =>
        \/ Kind(last) = "Success" /\ attempts_made <= reconnect_attempts
        \/ Kind(last) = "ConnectionFailed" /\ attempts_made = reconnect_attempts

\* C1 amended: an execute call never makes more than reconnect_attempts connect
\* attempts; one that starts unhealthy and returns the connection failure made
\* exactly reconnect_attempts attempts and sent no tool call, and one that
\* returns success, unknown tool or an execution error made at least one.
C1_ReconnectAttempts ==
    /\ attempts_made <= reconnect_attempts
    /\ (pc = "done" /\ ~call.healthBefore) =>
          /\ Kind(last) = "ConnectionFailed" => attempts_made = reconnect_attempts
          /\ Kind(last) \in {"Success", "UnknownTool", "ExecutionError"}
                => attempts_made \in 1..reconnect_attempts

\* C1 witness: an unhealthy call used up two attempts, with time to spare, and
\* returned the connection failure.
C1_Witness ==
    /\ pc = "done"
    /\ ~call.healthBefore
    /\ Kind(last) = "ConnectionFailed"
    /\ attempts_made = 2
    /\ elapsed < exec_timeout

LookupMiss ==
    (pc = "lookup" /\ call.tool_name \notin Range(available_tools)) =>
        /\ pc' = "done"
        /\ Kind(last') = "UnknownTool"
        /\ Range(available_tools) \subseteq Range(last'.error)
        /\ sentLog' = <<>>

C3_TimeoutKeepsHealth ==
    [][/\ (pc \in {"connecting", "calling"} /\ elapsed + pending.dur > exec_timeout)
            => (pc' = "done" /\ Kind(last') = "Timeout")
       /\ (pc # "done" /\ pc' = "done" /\ Kind(last') = "Timeout")
            => /\ connection_healthy' = connection_healthy
               /\ call'.healthBefore => connection_healthy']_vars

\* C3 witness: a tool call on a healthy bridge outlasted the timeout.
C3_Witness ==
    /\ pc = "done"
    /\ Kind(last) = "Timeout"
    /\ cut.op = "call"
    /\ cut.dur > exec_timeout
    /\ call.healthBefore
    /\ connection_healthy

\* C4: execute never raises: whatever the connect attempts and the transport
\* call do, a running call can always take its next step, and what reaches the
\* caller is a result dictionary, success with a value or failure with an error.
C4_ExecuteReturnsResult ==
    /\ Running => ENABLED CallStep
    /\ pc = "done" =>
          /\ "success" \in DOMAIN last
          /\ last.success => "result" \in DOMAIN last
          /\ ~last.success => "error" \in DOMAIN last

\* C4 witness: the deadline passed during the second connect attempt.
C4_Witness ==
    /\ pc = "done"
    /\ Kind(last) = "Timeout"
    /\ cut.op = "connect"
    /\ attempts_made = 2

\* C5: when the transport call fails with an error other than the deadline,
\* execute marks the connection unhealthy and returns the execution-error
\* failure whose message carries the text of that error.
C5_ExecutionError ==
    (pc = "done" /\ respLog # <<>> /\ ExecuteTransport(respLog[1]).raised) =>
        /\ ~connection_healthy
        /\ Kind(last) = "ExecutionError"
        /\ last.error = <<"Tool execution error: ", ExecuteTransport(respLog[1]).value>>
        /\ respLog[1].kind = "error" => last.error[2] = respLog[1].text

\* C5 witness: the transport failed a tool call sent on a healthy bridge.
C5_Witness ==
    /\ pc = "done"
    /\ call.healthBefore
    /\ respLog # <<>>
    /\ respLog[1].kind = "error"
    /\ Kind(last) = "ExecutionError"

\* C6: a tool call is in flight only while the connection is healthy; the call
\* after an execution error starts unhealthy, makes at least one connect attempt
\* before it sends a tool call, and sends none when the repair fails.
C6_NoCallOnBrokenTransport ==
    /\ pc = "calling" => connection_healthy
    /\ prevExecError => ~connection_healthy
    /\ (pc # "idle" /\ call.afterExecError) => ~call.healthBefore
    /\ (sentLog # <<>> /\ ~call.healthBefore) => attempts_made >= 1
    /\ (pc = "done" /\ Kind(last) = "ConnectionFailed") => sentLog = <<>>

\* C6 witness: the call after an execution error sends its tool call after two
\* connect attempts.
C6_Witness ==
    /\ pc = "calling"
    /\ call.afterExecError
    /\ attempts_made = 2
    /\ sentLog # <<>>

\* C7 as stated: close called once or twice in succession does not raise and
\* the connection is unhealthy after each call.
C7_AsStated ==
    closeLog # <<>> =>
        /\ \A i \in 1..Len(closeLog) : closeLog[i] = "ok"
        /\ ~connection_healthy

\* C8: execute with arguments None does what execute with arguments {} does,
\* for every tool name, timeout and bridge state, and the transport never
\* receives None as the arguments.
C8_NoneIsEmptyDict ==
    /\ pc = "idle" =>
          \A name \in ToolNames, tmo \in TimeoutInputs, loopRunning \in BOOLEAN :
              ExecuteEffect(name, None, tmo, loopRunning)
                  = ExecuteEffect(name, Some(EmptyDict), tmo, loopRunning)
    /\ (pc # "idle" /\ call.argIn = None) => arguments = Some(EmptyDict)
    /\ \A i \in 1..Len(sentLog) : sentLog[i] # None

\* C8 witness: a call made with arguments None succeeded, and the transport got {}.
C8_Witness ==
    /\ pc = "done"
    /\ call.argIn = None
    /\ sentLog = <<Some(EmptyDict)>>
    /\ Kind(last) = "Success"

\* C9 as stated: the effective timeout is the override when it is given and
\* positive, and the configured default otherwise.
C9_AsStated ==
    pc # "idle" => exec_timeout = EffectiveTimeoutAsSpecified(call.timeoutIn)

\* C10: execute returns no later than its effective timeout after it was
\* called, and a call cut short by the deadline returns the timeout failure
\* at the deadline, however long the awaited operation would have taken.
C10_ReturnsByDeadline ==
    /\ pc # "idle" => elapsed <= EffectiveTimeoutAsSpecified(call.timeoutIn)
    /\ (pc = "done" /\ cut.op # "none") =>
          /\ Kind(last) = "Timeout"
          /\ elapsed = exec_timeout

\* C10 witness: a tool call taking 5 seconds under a timeout of 1 second.
C10_Witness ==
    /\ pc = "done"
    /\ Kind(last) = "Timeout"
    /\ cut = [op |-> "call", dur |-> 5]
    /\ exec_timeout = 1
    /\ elapsed = 1

\* C11: the server_info of a returned dictionary is the bridge's state at the
\* moment execute returns: connected equals the health flag and
\* available_tools_count the catalog size as they are then, whatever they were
\* when the call started.
C11_ServerInfoAtReturn ==
    pc = "done" =>
        /\ last.server_info.connected = connection_healthy
        /\ last.server_info.available_tools_count = Len(available_tools)
        /\ last.server_info.type = server_type

\* C11 witness: a call that started unhealthy returned a dictionary that
\* reports the connection made during the call and its two tools.
C11_Witness ==
    /\ pc = "done"
    /\ ~call.healthBefore
    /\ last.server_info.connected
    /\ last.server_info.available_tools_count = 2

\* The tool call of the running execute was answered with a text block before
\* the deadline.
CallAnswered == pc = "done" /\ respLog # <<>> /\ respLog[1].kind = "text"

\* C14: when the bridge is healthy, the name is in the catalog and the tool
\* call is answered with a text block before the deadline, execute returns
\* the success dictionary whose result is that text and whose tool_name is the
\* requested name.
C14_SuccessValue ==
    CallAnswered =>
        /\ Kind(last) = "Success"
        /\ last.result = respLog[1].text
        /\ last.tool_name = call.tool_name
        /\ connection_healthy
        /\ call.tool_name \in Range(available_tools)

\* C14 witness: execute("echo", {"message": "hi"}) on a healthy stdio bridge
\* returned "Echo: hi".
C14_Witness ==
    /\ pc = "done"
    /\ server_type = "stdio"
    /\ call.healthBefore
    /\ call.tool_name = "echo"
    /\ sentLog = <<Some(MessageHi)>>
    /\ Kind(last) = "Success"
    /\ last.result = "Echo: hi"
    /\ last.tool_name = "echo"

\* The return statement a finished execute call left through (tool.py 352-367,
\* 383-420), told from what happened during the call.
Cause ==
    IF call.loopRunning THEN "ExecutionFailed"
    ELSE IF exec_timeout <= 0 \/ cut.op # "none" THEN "Timeout"
    ELSE IF respLog # <<>>
      THEN IF ExecuteTransport(respLog[1]).raised THEN "ExecutionError" ELSE "Success"
    ELSE IF connection_healthy THEN "UnknownTool"
    ELSE "ConnectionFailed"

\* C15: every returned dictionary is one of two shapes, success with a result
\* and no error or failure with an error and no result; both carry the
\* requested tool name and the server_info; and the kind read off the
\* dictionary alone is the kind of the path that produced it.
C15_TwoVariants ==
    pc = "done" =>
        /\ last.success \in BOOLEAN
        /\ last.success => DOMAIN last = {"success", "result", "tool_name", "server_info"}
        /\ ~last.success => DOMAIN last = {"success", "error", "tool_name", "server_info"}
        /\ last.tool_name = call.tool_name
        /\ Kind(last) = Cause

\* C15 witness: the tool call raised and the dictionary says so.
C15_Witness ==
    /\ pc = "done"
    /\ Cause = "ExecutionError"
    /\ Kind(last) = "ExecutionError"
    /\ "result" \notin DOMAIN last

\* The step of _ensure_connection on a healthy bridge.
EnsureHealthyStep ==
    (pc = "ensure" /\ connection_healthy) =>
        /\ pc' = "lookup"
        /\ UNCHANGED <<conn, attempts_made, elapsed, pending>>

\* C20: _ensure_connection called with a healthy flag returns True at once: no
\* connect attempt, no sleep, no change to the handles or the catalog.
C20_HealthyFastPath ==
    /\ [][EnsureHealthyStep]_vars
    /\ []((pc = "lookup" /\ call.healthBefore) => (attempts_made = 0 /\ elapsed = 0))

\* C20 witness: a call that started healthy is at the catalog lookup without
\* an attempt made or a second passed.
C20_Witness ==
    /\ pc = "lookup"
    /\ call.healthBefore
    /\ connection_healthy
    /\ attempts_made = 0
    /\ elapsed = 0

\* The configured transport kind and the emptiness of the two parameters, as
\* the constructor sees them.
ConfiguredKind == Lower(env.server_type)
CommandEmpty == env.server_command \in {None, Some("")}
UrlEmpty == env.server_url \in {None, Some("")}

NeverConnected ==
    session = "None" /\ http_client = "None" /\ available_tools = <<>>

\* C13 as stated: get_available_tools() on a bridge that has not connected yet
\* triggers the connection and returns a non-empty list of tools.
C13_AsStated ==
    (listed # None /\ NeverConnected) => (listed[1] # <<>> /\ connection_healthy)

\* C16 as stated: an execute call made after close() returned makes no connect
\* attempt and never sets the health flag again.
C16_AsStated ==
    (pc # "idle" /\ call.afterClose) => (attempts_made = 0 /\ ~connection_healthy)

\* C17 as stated: the health flag is unset after every close() call, including
\* one in which releasing the HTTP client raised.
C17_AsStated == closeLog # <<>> => ~connection_healthy

\* C18 as stated: after close() returned, neither the stdio session nor the
\* HTTP client of the bridge is still open.
C18_AsStated ==
    (closeLog # <<>> /\ closeLog[Len(closeLog)] = "ok")
        => (session # "open" /\ http_client # "open")

\* C19 as stated: on a stdio bridge the tool calls of two overlapping execute
\* calls are serialized, so the two callers never await a call_tool on the
\* shared session at the same time.
C19_AsStated ==
    ~(server_type = "stdio" /\ pc = "calling" /\ other.pc = "calling")

\* The steps of _ensure_connection after a connect attempt.
EnsureStopsAtSuccess ==
    /\ (pc = "connecting" /\ pc' = "lookup") =>
          /\ connection_healthy'
          /\ available_tools' = connLog'.fetched[1]
          /\ attempts_made' = attempts_made
    /\ pc \in {"lookup", "calling"} =>
          /\ attempts_made' = attempts_made
          /\ pc' \notin {"loop", "connecting", "sleeping"}
    /\ (pc = "loop" /\ pc' = "done") =>
          /\ attempts_made = reconnect_attempts
          /\ ~connection_healthy'
          /\ Kind(last') = "ConnectionFailed"

\* C21: _ensure_connection entered with the flag unset stops at the first
\* connect that succeeds: the flag is set, the catalog is the listing just
\* fetched, it returns True (execute goes on to the lookup) and makes no
\* further attempt; it returns False only after reconnect_attempts failed
\* attempts, with the flag unset.
C21_StopsAtFirstSuccess ==
    /\ [][EnsureStopsAtSuccess]_vars
    /\ []((pc = "lookup" /\ ~call.healthBefore) =>
            /\ connection_healthy
            /\ attempts_made \in 1..reconnect_attempts
            /\ connLog.fetched = Some(available_tools))

\* C21 witness: the second of two attempts succeeded and listed two tools.
C21_Witness ==
    /\ pc = "lookup"
    /\ ~call.healthBefore
    /\ attempts_made = 2
    /\ connection_healthy
    /\ available_tools = <<"echo", "add">>

\* A connect attempt ended without success and without the deadline passing.
ConnectAttemptFailed ==
    \/ pc = "connecting" /\ pc' # "lookup" /\ cut' = cut
    \/ pc = "loop" /\ attempts_made' = attempts_made + 1 /\ pc' # "connecting"

\* C22: a connect attempt that fails unsets the health flag and returns False
\* to _ensure_connection, which sleeps and goes on with its loop; no exception
\* of a connect ever reaches execute.
C22_ConnectNeverRaises ==
    /\ [][ConnectAttemptFailed =>
            (pc' = "sleeping" /\ ~connection_healthy' /\ last' = last)]_vars
    /\ []((pc = "done" /\ Kind(last) = "ExecutionFailed") => call.loopRunning)

\* C22 witness: the first connect failed after two seconds and the loop sleeps.
C22_Witness ==
    /\ pc = "sleeping"
    /\ attempts_made = 1
    /\ elapsed = 2
    /\ ~connection_healthy

\* C23: after a successful connect the catalog is exactly the server's listing
\* of that connect; nothing of the previous catalog is kept.
C23_CatalogReplaced ==
    connLog.fetched # None => available_tools = connLog.fetched[1]

\* C23 witness: the call before this one reached a tool of the catalog; this
\* call reconnected, the server listed no tool, and the catalog is empty.
C23_Witness ==
    /\ pc = "done"
    /\ call.afterExecError
    /\ connLog.fetched = Some(<<>>)
    /\ available_tools = <<>>
    /\ Kind(last) = "UnknownTool"

\* C24: the catalog changes only in the step in which a connect succeeds;
\* failed connects, tool calls, unknown-tool results, deadlines,
\* get_server_info, get_available_tools and close leave it as it is.
C24_CatalogChangesOnlyAtConnect ==
    [][available_tools' # available_tools =>
          /\ pc = "connecting"
          /\ pc' = "lookup"
          /\ connection_healthy'
          /\ connLog'.fetched = Some(available_tools')]_vars

\* C24 witness: after a close the bridge still has the two tools it listed.
C24_Witness ==
    /\ pc = "idle"
    /\ closeLog # <<>>
    /\ ~connection_healthy
    /\ available_tools = <<"echo", "add">>

\* C25: when _ensure_connection returns False execute returns the connection
\* failure whatever the tool name, also for a name that is not in the catalog,
\* and no tool call is sent.
C25_ConnectionBeforeCatalog ==
    /\ [][(pc = "loop" /\ pc' = "done") =>
            (Kind(last') = "ConnectionFailed" /\ sentLog' = <<>>)]_vars
    /\ []((pc = "done" /\ Cause = "ConnectionFailed") =>
            (Kind(last) = "ConnectionFailed" /\ sentLog = <<>>))

\* C25 witness: the connection failure for a name the catalog does not have.
C25_Witness ==
    /\ pc = "done"
    /\ Kind(last) = "ConnectionFailed"
    /\ call.tool_name = "nope"
    /\ call.tool_name \notin Range(available_tools)
    /\ sentLog = <<>>

\* C26: an execute call sends the tool call at most once; after the deadline
\* or a transport error nothing of the call is left waiting, in that execute
\* or after it.
C26_CallSentAtMostOnce ==
    /\ Len(sentLog) <= 1
    /\ Len(respLog) <= Len(sentLog)
    /\ cut.op = "call" => respLog = <<>>
    /\ pc \in {"done", "idle"} => pending = NoPending

\* C26 witness: the deadline passed during the tool call, which was sent once
\* and never answered.
C26_Witness ==
    /\ pc = "done"
    /\ Kind(last) = "Timeout"
    /\ cut.op = "call"
    /\ Len(sentLog) = 1
    /\ respLog = <<>>

\* C27 as stated: the reconnect loop sleeps only between two attempts, so it
\* is never asleep after its last attempt.
C27_AsStated == ~(pc = "sleeping" /\ attempts_made = reconnect_attempts)

\* C29: no operation changes the configuration the constructor read, not even
\* an execute with a timeout override.
C29_ConfigImmutable ==
    [][UNCHANGED <<server_type, timeout, reconnect_attempts, env>>]_vars

\* C29 witness: an execute with the override 2 ran under it on a bridge whose
\* configured timeout is still 3.
C29_Witness ==
    /\ pc = "done"
    /\ call.timeoutIn = Some(2)
    /\ exec_timeout = 2
    /\ timeout = 3
    /\ env.timeout = 3

\* C30 as stated: a connect attempt never replaces a handle that is still
\* open, so at most one unreleased handle exists.
C30_AsStated == ~connLog.replacedOpen

\* The constructor's step and the steps that create a handle.
ConstructionOnlyValidates ==
    /\ (constructed = "pending" /\ constructed' = "ok") =>
          /\ ~connection_healthy'
          /\ available_tools' = <<>>
          /\ session' = "None"
          /\ http_client' = "None"
          /\ attempts_made' = 0
          /\ sentLog' = <<>>
    /\ (session' # session \/ http_client' # http_client) =>
          \/ pc = "loop" /\ attempts_made' = attempts_made + 1
          \/ pc = "idle" /\ http_client = "open" /\ http_client' = "closed"

\* C28: the constructor validates and does nothing else: right after a
\* successful construction the flag is unset, the catalog empty, there is no
\* handle and no connect attempt was made; a handle is first created by a
\* connect attempt of the reconnect loop of an execute call, and until then
\* get_server_info, get_available_tools and close leave the bridge without one.
C28_ConstructionOnlyValidates ==
    /\ [][ConstructionOnlyValidates]_vars
    /\ [](constructed # "ok" => NeverConnected)

\* C28 witness: on a bridge built from MCP_SERVER_TYPE=STDIO the first connect
\* attempt of an execute call has just created the session.
C28_Witness ==
    /\ constructed = "ok"
    /\ env.server_type = "STDIO"
    /\ pc = "connecting"
    /\ attempts_made = 1
    /\ session = "open"
    /\ available_tools = <<>>

\* C31: used by one caller, a returned dictionary's server_info agrees with
\* its outcome: success and unknown tool report connected = True, the
\* connection failure and the execution error report connected = False.
C31_ServerInfoAgreesWithOutcome ==
    pc = "done" =>
        /\ Kind(last) \in {"Success", "UnknownTool"} => last.server_info.connected
        /\ Kind(last) \in {"ConnectionFailed", "ExecutionError"}
              => ~last.server_info.connected

\* C31 witness: a call that started healthy ended with an execution error and
\* reports connected = False.
C31_Witness ==
    /\ pc = "done"
    /\ call.healthBefore
    /\ Kind(last) = "ExecutionError"
    /\ ~last.server_info.connected
    /\ last.server_info.available_tools_count = 2

\* The reconnect loop of the running call has not connected.
LoopKeptFailing == ~call.healthBefore /\ connLog.fetched = None

\* C32: the deadline of execute covers the reconnect loop.  On an unhealthy
\* bridge whose connects keep failing, a loop that would take longer than the
\* effective timeout is cut at the deadline, during a connect or a sleep, and
\* execute returns the timeout failure with the flag still unset; the
\* connection failure is returned only when the whole loop fits the timeout.
C32_DeadlineCoversReconnect ==
    (CoroutineRan /\ LoopKeptFailing) =>
        /\ Kind(last) \in {"Timeout", "ConnectionFailed"}
        /\ ~connection_healthy
        /\ sentLog = <<>>
        /\ elapsed <= exec_timeout
        /\ Kind(last) = "Timeout" <=> cut.op \in {"connect", "sleep"}
        /\ Kind(last) = "Timeout" => elapsed = exec_timeout
        /\ Kind(last) = "ConnectionFailed" => attempts_made = reconnect_attempts

\* C32 witness: two attempts were allowed; the deadline passed during the sleep
\* after the first failed one.
C32_Witness ==
    /\ pc = "done"
    /\ LoopKeptFailing
    /\ reconnect_attempts = 2
    /\ attempts_made = 1
    /\ cut.op = "sleep"
    /\ Kind(last) = "Timeout"
    /\ ~connection_healthy

\* C33 as stated: on a bridge with reconnect_attempts = 0 every execute called
\* outside a running event loop makes no connect attempt, returns the
\* connection failure and leaves the flag unset.
C33_AsStated ==
    (reconnect_attempts = 0 /\ pc = "done" /\ ~call.loopRunning) =>
        /\ attempts_made = 0
        /\ ~connection_healthy
        /\ Kind(last) = "ConnectionFailed"

\* The steps that change the health flag.
HealthChange ==
    /\ (~connection_healthy /\ connection_healthy') =>
          (pc = "connecting" /\ pc' = "lookup" /\ connLog'.fetched # None)
    /\ (connection_healthy /\ ~connection_healthy') =>
          \/ pc = "calling" /\ Kind(last') = "ExecutionError"
          \/ pc = "idle" /\ pc' = "idle" /\ closeLog' # closeLog

\* C34: the flag is set only by the step in which a connect attempt of the
\* reconnect loop succeeds, during an execute call; it is unset, when it was
\* set, only by a tool call that raised or by close.
C34_HealthChanges == [][HealthChange]_vars

\* C34 witness: after a close the flag was set again by the connect of the
\* next execute call.
C34_Witness ==
    /\ pc = "lookup"
    /\ call.afterClose
    /\ ~call.healthBefore
    /\ connection_healthy
    /\ attempts_made = 1

\* Where a set flag comes from: it was set and nothing of the connection
\* changed, or a connect just succeeded on the handle its attempt created.
HealthyKeepsConnection ==
    connection_healthy' =>
        \/ connection_healthy /\ UNCHANGED <<session, http_client, available_tools>>
        \/ /\ pc = "connecting"
           /\ HandleInUse = "open"
           /\ UNCHANGED <<session, http_client>>
           /\ available_tools' = connLog'.fetched[1]

\* C35: used by one caller, a set health flag implies that the handle of the
\* configured transport exists and that the catalog is the one fetched by the
\* connect attempt that created that handle.
C35_HealthyHasHandleAndCatalog ==
    /\ [](connection_healthy => HandleInUse = "open")
    /\ [](pc = "connecting" => HandleInUse = "open")
    /\ [][HealthyKeepsConnection]_vars

\* C35 witness: an idle, healthy http bridge with its client and two tools.
C35_Witness ==
    /\ pc = "idle"
    /\ connection_healthy
    /\ server_type = "http"
    /\ http_client = "open"
    /\ session = "None"
    /\ available_tools = <<"echo", "add">>

\* C36: an execute call that returns the unknown-tool failure sent no tool
\* call and left the flag, the catalog and the handles as _ensure_connection
\* left them, the flag set.
C36_UnknownToolFrame ==
    /\ [][(pc = "lookup" /\ Kind(last') = "UnknownTool") =>
            (connection_healthy /\ UNCHANGED conn /\ sentLog' = <<>>)]_vars
    /\ []((pc = "done" /\ Kind(last) = "UnknownTool") =>
            (connection_healthy /\ sentLog = <<>> /\ HandleInUse = "open"))

\* C36 witness: "add" was asked of a healthy bridge that only has "echo".
C36_Witness ==
    /\ pc = "done"
    /\ Kind(last) = "UnknownTool"
    /\ call.healthBefore
    /\ call.tool_name = "add"
    /\ available_tools = <<"echo">>
    /\ connection_healthy
    /\ sentLog = <<>>

\* C37 as stated: after a caller's connect succeeded, the failed connect of
\* another caller does not unset the flag: the first caller is never at its
\* catalog lookup with the flag unset and the other caller asleep after a
\* failed attempt.
C37_AsStated ==
    ~(/\ pc = "lookup"
      /\ connLog.fetched # None
      /\ other.pc = "sleeping"
      /\ ~connection_healthy)

\* C38: validation checks the transport's library before the required
\* parameter: stdio without the mcp client and with an empty command, and http
\* without httpx and with an empty URL, raise ImportError, not ValueError.
C38_DependencyBeforeParameter ==
    constructed # "pending" =>
        /\ (ConfiguredKind = "stdio" /\ ~env.stdio_available /\ CommandEmpty)
              => constructed = "ImportError"
        /\ (ConfiguredKind = "http" /\ ~env.http_available /\ UrlEmpty)
              => constructed = "ImportError"

\* C38 witness: stdio with MCP_SERVER_COMMAND unset and no mcp client.
C38_Witness ==
    /\ constructed = "ImportError"
    /\ ConfiguredKind = "stdio"
    /\ ~env.stdio_available
    /\ env.server_command = None

====
